---- MODULE Spec2Model ----
(***************************************************************************)
(* The client-side authentication flow of AlexGrek/startemplates:          *)
(*   src/stuff/login-register-tailwind.tsx   component App                 *)
(*   src/stuff/login-register-rsuite.tsx     component LoginRegisterPage   *)
(* One page is modelled; `variant` says which of the two components it     *)
(* mounts.  Every await of the handlers is a separate step, so that user   *)
(* events interleave with a pending fetch exactly where the event loop     *)
(* lets them.                                                              *)
(***************************************************************************)
EXTENDS Integers, Sequences, FiniteSets, TLC

VARIABLES
    variant,       \* which component is mounted: "tailwind" (App) or "rsuite" (LoginRegisterPage)
    activeTab,     \* useState('login')
    username,      \* useState('')
    password,      \* useState('')
    loading,       \* useState(false)
    error,         \* useState('')            (App only)
    checkingAuth,  \* useState(true)
    toasts,        \* messages pushed to the toaster and not yet expired (LoginRegisterPage only)
    probe,         \* the checkAuth() call started by useEffect: its position, and whether it found a session
    reqs,          \* the handleSubmit() calls suspended at an await, each with its request
    calls,         \* how many times handleSubmit has been invoked
    timers,        \* pending setTimeout(() => location.href = '/home', 500) callbacks
    nav            \* window.location: "none", "pending" (href assigned), "unloaded" (page replaced)

vars == <<variant, activeTab, username, password, loading, error, checkingAuth,
          toasts, probe, reqs, calls, timers, nav>>

----------------------------------------------------------------------------
(* Bounds *)

\* handleSubmit is invoked at most this many times in a behaviour
MaxSubmits == 2

----------------------------------------------------------------------------
(* Values *)

Variants == {"tailwind", "rsuite"}
Tabs == {"login", "register"}

\* text a user may type into the two inputs
Usernames == {"", "alice"}
Passwords == {"", "pw"}

\* a property that is missing from a JSON object reads as undefined
Undefined == "undefined"

LoginFailed == "Login failed"
RegistrationFailed == "Registration failed"
NetworkError == "Network error. Please try again."
FillAllFields == "Please fill in all fields"
LoginSuccessful == "Login successful!"
RegistrationSuccessful == "Registration successful!"

\* a response body: text that is no JSON, the JSON value null, or a JSON object
Body(kind, u, d, m) == [kind |-> kind, username |-> u, detail |-> d, message |-> m]
EmptyBody == Body("unparseable", Undefined, Undefined, Undefined)
NullBody == Body("null", Undefined, Undefined, Undefined)
EmptyObject == Body("object", Undefined, Undefined, Undefined)

\* bodies the whoami endpoint may answer with
WhoamiBodies ==
    {EmptyBody, NullBody}
      \cup {Body("object", u, Undefined, Undefined) : u \in {Undefined, "", "alice"}}

\* bodies the login and register endpoints may answer a rejected request with
FailureBodies ==
    {EmptyBody, NullBody}
      \cup {Body("object", Undefined, d, m) :
                d \in {Undefined, "", "bad credentials"}, m \in {Undefined, "try later"}}

\* what a fetch() settles with: it throws, or it resolves with a response,
\* whose body is read later by response.json()
Resp(kind, status) == [kind |-> kind, status |-> status]
Thrown == Resp("throw", 0)

WhoamiResponses == {Thrown} \cup {Resp("response", s) : s \in {200, 401, 500}}

SubmitResponses == {Thrown} \cup {Resp("response", s) : s \in {200, 201, 400, 500}}

----------------------------------------------------------------------------
(* Expressions of the two components *)

\* response.ok
Ok(resp) == resp.kind = "response" /\ resp.status >= 200 /\ resp.status <= 299

\* a faulty IsSuccess: only the explicit 201 counts as success
IsSuccess_Only201(resp) == resp.kind = "response" /\ resp.status = 201

\* response.ok || response.status === 201
IsSuccess(resp) == Ok(resp) \/ (resp.kind = "response" /\ resp.status = 201)

\* a value used as a condition: undefined and '' are falsy
Truthy(v) == v # Undefined /\ v # ""

\* response.json() rejects when the body is no JSON
JsonRejects(body) == body.kind = "unparseable"

\* reading a property of null throws a TypeError
PropertyThrows(data) == data.kind = "null"

\* a faulty Endpoint: the two paths are exchanged
Endpoint_Swapped(tab) == IF tab = "login" THEN "/auth/register" ELSE "/auth/login"

\* activeTab === 'login' ? '/auth/login' : '/auth/register'
Endpoint(tab) == IF tab = "login" THEN "/auth/login" ELSE "/auth/register"

\* `${activeTab === 'login' ? 'Login' : 'Registration'} failed`
Fallback(tab) == IF tab = "login" THEN LoginFailed ELSE RegistrationFailed

\* activeTab === 'login' ? 'Login successful!' : 'Registration successful!'
SuccessText(tab) == IF tab = "login" THEN LoginSuccessful ELSE RegistrationSuccessful

\* response.json(): the parsed body, or a rejection when the body is no JSON
Rejected == Body("rejected", Undefined, Undefined, Undefined)
Json(body) == IF JsonRejects(body) THEN Rejected ELSE body

\* a faulty CatchEmptyObject: the rejection of response.json() is not caught
CatchEmptyObject_Missing(v) == v

\* .catch(() => ({})) applied to the promise of response.json()
CatchEmptyObject(v) == IF v = Rejected THEN EmptyObject ELSE v

\* data.detail || data.message || `... failed`
ErrorMessage(data, tab) ==
    IF Truthy(data.detail) THEN data.detail
    ELSE IF Truthy(data.message) THEN data.message
    ELSE Fallback(tab)

\* what the else branch and the catch clause of handleSubmit end up displaying
\* for a rejected request: a TypeError raised by data.detail lands in catch
FailureText(body, tab) ==
    LET data == CatchEmptyObject(Json(body))
    IN  IF data = Rejected \/ PropertyThrows(data) THEN NetworkError
        ELSE ErrorMessage(data, tab)

\* checkAuth, inside if (response.ok): the body parses and data.username is truthy
HasUsername(body) ==
    /\ Json(body) # Rejected
    /\ ~PropertyThrows(Json(body))
    /\ Truthy(Json(body).username)

----------------------------------------------------------------------------
(* State *)

\* a handleSubmit call suspended at an await, with the request it sent: at
\* `await fetch(...)` ("fetching"), or at `await response.json()...` ("parsing");
\* tab is the activeTab its closure holds
Request(id, tab, u, p) ==
    [id |-> id, tab |-> tab, endpoint |-> Endpoint(tab), method |-> "POST",
     username |-> u, password |-> p, pc |-> "fetching"]

Toast(type, msg) == [type |-> type, msg |-> msg]

Init ==
    /\ variant \in Variants
    /\ activeTab = "login"
    /\ username = ""
    /\ password = ""
    /\ loading = FALSE
    /\ error = ""
    /\ checkingAuth = TRUE
    /\ toasts = << >>
    /\ probe = [pc |-> "fetching", session |-> FALSE]
    /\ reqs = {}
    /\ calls = 0
    /\ timers = 0
    /\ nav = "none"

\* the page still exists
Alive == nav # "unloaded"

\* a faulty FormRendered: the form is returned while the probe is running
FormRendered_NoGate == Alive

\* the component returns the form, not the loading indicator
FormRendered == Alive /\ ~checkingAuth

\* window.location.href = '/home'
GoHome == nav' = "pending"

----------------------------------------------------------------------------
(* checkAuth, the same text in both components *)

\* a faulty CheckAuthFinally: setCheckingAuth(false) is never called
CheckAuthFinally_Missing == UNCHANGED checkingAuth

\* finally { setCheckingAuth(false) }
CheckAuthFinally == checkingAuth' = FALSE

\* `await fetch(.../auth/whoami)` settles: a throw goes to catch, a response
\* that is not ok skips the if, an ok response goes on to `await response.json()`
CheckAuthResponse(resp) ==
    /\ Alive
    /\ probe.pc = "fetching"
    /\ IF Ok(resp)
       THEN /\ probe' = [probe EXCEPT !.pc = "parsing"]
            /\ UNCHANGED <<checkingAuth, nav>>
       ELSE /\ probe' = [probe EXCEPT !.pc = "done"]
            /\ CheckAuthFinally
            /\ UNCHANGED nav
    /\ UNCHANGED <<variant, activeTab, username, password, loading, error,
                   toasts, reqs, calls, timers>>

\* `await response.json()` settles, the body read: a rejection and the
\* TypeError of null.username go to catch; a truthy data.username assigns
\* location.href and returns; the finally clause runs on every one of these paths
CheckAuthJson(body) ==
    /\ Alive
    /\ probe.pc = "parsing"
    /\ probe' = [pc |-> "done", session |-> HasUsername(body)]
    /\ IF HasUsername(body) THEN GoHome ELSE UNCHANGED nav
    /\ CheckAuthFinally
    /\ UNCHANGED <<variant, activeTab, username, password, loading, error,
                   toasts, reqs, calls, timers>>

App_checkAuth_response(resp) == variant = "tailwind" /\ CheckAuthResponse(resp)
App_checkAuth_json(body) == variant = "tailwind" /\ CheckAuthJson(body)
LoginRegisterPage_checkAuth_response(resp) == variant = "rsuite" /\ CheckAuthResponse(resp)
LoginRegisterPage_checkAuth_json(body) == variant = "rsuite" /\ CheckAuthJson(body)

----------------------------------------------------------------------------
(* App (login-register-tailwind.tsx) *)

\* the call has run to its end
Return(r) == reqs' = reqs \ {r}

\* the call suspends at `await response.json().catch(...)`
AwaitJson(r) == reqs' = (reqs \ {r}) \cup {[r EXCEPT !.pc = "parsing"]}


\* a faulty App_handleSubmit: empty fields are refused before the fetch
App_handleSubmit_Guarded ==
    /\ calls < MaxSubmits
    /\ calls' = calls + 1
    /\ IF ~Truthy(username) \/ ~Truthy(password)
       THEN /\ error' = FillAllFields
            /\ UNCHANGED <<loading, reqs>>
       ELSE /\ error' = ""
            /\ loading' = TRUE
            /\ reqs' = reqs \cup {Request(calls + 1, activeTab, username, password)}
    /\ UNCHANGED <<variant, activeTab, username, password, checkingAuth, toasts,
                   probe, timers, nav>>

\* handleSubmit up to `await fetch(...)`
App_handleSubmit ==
    /\ calls < MaxSubmits
    /\ calls' = calls + 1
    /\ error' = ""
    /\ loading' = TRUE
    /\ reqs' = reqs \cup {Request(calls + 1, activeTab, username, password)}
    /\ UNCHANGED <<variant, activeTab, username, password, checkingAuth, toasts,
                   probe, timers, nav>>

\* <button onClick={handleSubmit} disabled={loading}>
App_button_onClick ==
    /\ variant = "tailwind"
    /\ FormRendered
    /\ ~loading
    /\ App_handleSubmit

\* <input onKeyDown={(e) => e.key === 'Enter' && handleSubmit(e)} disabled={loading}>
App_input_onKeyDown ==
    /\ variant = "tailwind"
    /\ FormRendered
    /\ ~loading
    /\ App_handleSubmit

\* a faulty App_catch: the thrown fetch is swallowed without a message
App_catch_Silent == UNCHANGED error

\* catch (err) { setError('Network error. Please try again.') }
App_catch == error' = NetworkError

\* a faulty App_finally: setLoading(false) is never called
App_finally_Missing == UNCHANGED loading

\* finally { setLoading(false) }
App_finally == loading' = FALSE

\* `await fetch(...)` of handleSubmit settles with resp and the call resumes
App_handleSubmit_response(r, resp) ==
    /\ variant = "tailwind"
    /\ Alive
    /\ r \in reqs
    /\ r.pc = "fetching"
    /\ IF resp.kind = "throw"
       THEN /\ App_catch
            /\ App_finally
            /\ Return(r)
            /\ UNCHANGED nav
       ELSE IF IsSuccess(resp)
       THEN /\ GoHome
            /\ App_finally
            /\ Return(r)
            /\ UNCHANGED error
       ELSE /\ AwaitJson(r)
            /\ UNCHANGED <<error, loading, nav>>
    /\ UNCHANGED <<variant, activeTab, username, password, checkingAuth, toasts,
                   probe, calls, timers>>

\* `await response.json().catch(() => ({}))` settles, the body read, and the call resumes
App_handleSubmit_json(r, body) ==
    /\ variant = "tailwind"
    /\ Alive
    /\ r \in reqs
    /\ r.pc = "parsing"
    /\ error' = FailureText(body, r.tab)
    /\ App_finally
    /\ Return(r)
    /\ UNCHANGED <<variant, activeTab, username, password, checkingAuth, toasts,
                   probe, calls, timers, nav>>

\* a faulty App_tab_onClick: a click on the active tab moves to the other one
App_tab_onClick_Toggle(t) ==
    /\ variant = "tailwind"
    /\ FormRendered
    /\ activeTab' = (IF activeTab = t THEN CHOOSE o \in Tabs : o # t ELSE t)
    /\ error' = ""
    /\ UNCHANGED <<variant, username, password, loading, checkingAuth, toasts,
                   probe, reqs, calls, timers, nav>>

\* the two tab buttons: onClick={() => { setActiveTab(t); setError('') }}
App_tab_onClick(t) ==
    /\ variant = "tailwind"
    /\ FormRendered
    /\ activeTab' = t
    /\ error' = ""
    /\ UNCHANGED <<variant, username, password, loading, checkingAuth, toasts,
                   probe, reqs, calls, timers, nav>>

\* <input id="username" onChange={(e) => setUsername(e.target.value)} disabled={loading}>
App_username_onChange(v) ==
    /\ variant = "tailwind"
    /\ FormRendered
    /\ ~loading
    /\ username' = v
    /\ UNCHANGED <<variant, activeTab, password, loading, error, checkingAuth,
                   toasts, probe, reqs, calls, timers, nav>>

\* <input id="password" onChange={(e) => setPassword(e.target.value)} disabled={loading}>
App_password_onChange(v) ==
    /\ variant = "tailwind"
    /\ FormRendered
    /\ ~loading
    /\ password' = v
    /\ UNCHANGED <<variant, activeTab, username, loading, error, checkingAuth,
                   toasts, probe, reqs, calls, timers, nav>>

----------------------------------------------------------------------------
(* LoginRegisterPage (login-register-rsuite.tsx) *)

\* toaster.push(<Message type=...>text</Message>, {duration})
Push(type, msg) == toasts' = Append(toasts, Toast(type, msg))

\* a faulty LoginRegisterPage_handleSubmit: the guard asks for both fields
\* to be empty (&& in place of ||)
LoginRegisterPage_handleSubmit_BothEmpty ==
    /\ calls < MaxSubmits
    /\ calls' = calls + 1
    /\ IF ~Truthy(username) /\ ~Truthy(password)
       THEN /\ Push("warning", FillAllFields)
            /\ UNCHANGED <<loading, reqs>>
       ELSE /\ loading' = TRUE
            /\ reqs' = reqs \cup {Request(calls + 1, activeTab, username, password)}
            /\ UNCHANGED toasts
    /\ UNCHANGED <<variant, activeTab, username, password, error, checkingAuth,
                   probe, timers, nav>>

\* handleSubmit up to `await fetch(...)`, or up to the return of the guard
LoginRegisterPage_handleSubmit ==
    /\ calls < MaxSubmits
    /\ calls' = calls + 1
    /\ IF ~Truthy(username) \/ ~Truthy(password)
       THEN /\ Push("warning", FillAllFields)
            /\ UNCHANGED <<loading, reqs>>
       ELSE /\ loading' = TRUE
            /\ reqs' = reqs \cup {Request(calls + 1, activeTab, username, password)}
            /\ UNCHANGED toasts
    /\ UNCHANGED <<variant, activeTab, username, password, error, checkingAuth,
                   probe, timers, nav>>

\* <Button onClick={handleSubmit} loading={loading}>: the button is never
\* given `disabled`, so a click handler stays attached while loading is true
LoginRegisterPage_Button_onClick ==
    /\ variant = "rsuite"
    /\ FormRendered
    /\ LoginRegisterPage_handleSubmit

\* <Input onPressEnter={handleSubmit} disabled={loading}>
LoginRegisterPage_Input_onPressEnter ==
    /\ variant = "rsuite"
    /\ FormRendered
    /\ ~loading
    /\ LoginRegisterPage_handleSubmit

\* catch (err) { toaster.push(<Message type="error">Network error. ...) }
LoginRegisterPage_catch == Push("error", NetworkError)

\* a faulty LoginRegisterPage_finally: loading is left as it is
LoginRegisterPage_finally_Missing == UNCHANGED loading

\* finally { setLoading(false) }
LoginRegisterPage_finally == loading' = FALSE

\* `await fetch(...)` of handleSubmit settles with resp and the call resumes
LoginRegisterPage_handleSubmit_response(r, resp) ==
    /\ variant = "rsuite"
    /\ Alive
    /\ r \in reqs
    /\ r.pc = "fetching"
    /\ IF resp.kind = "throw"
       THEN /\ LoginRegisterPage_catch
            /\ LoginRegisterPage_finally
            /\ Return(r)
            /\ UNCHANGED timers
       ELSE IF IsSuccess(resp)
       THEN /\ Push("success", SuccessText(r.tab))
            /\ timers' = timers + 1
            /\ LoginRegisterPage_finally
            /\ Return(r)
       ELSE /\ AwaitJson(r)
            /\ UNCHANGED <<toasts, loading, timers>>
    /\ UNCHANGED <<variant, activeTab, username, password, error, checkingAuth,
                   probe, calls, nav>>

\* a faulty LoginRegisterPage_handleSubmit_json: the rejected attempt arms
\* the redirect timer as the successful one does
LoginRegisterPage_handleSubmit_json_Redirects(r, body) ==
    /\ variant = "rsuite"
    /\ Alive
    /\ r \in reqs
    /\ r.pc = "parsing"
    /\ Push("error", FailureText(body, r.tab))
    /\ timers' = timers + 1
    /\ LoginRegisterPage_finally
    /\ Return(r)
    /\ UNCHANGED <<variant, activeTab, username, password, error, checkingAuth,
                   probe, calls, nav>>

\* `await response.json().catch(() => ({}))` settles, the body read, and the call resumes
LoginRegisterPage_handleSubmit_json(r, body) ==
    /\ variant = "rsuite"
    /\ Alive
    /\ r \in reqs
    /\ r.pc = "parsing"
    /\ Push("error", FailureText(body, r.tab))
    /\ LoginRegisterPage_finally
    /\ Return(r)
    /\ UNCHANGED <<variant, activeTab, username, password, error, checkingAuth,
                   probe, calls, timers, nav>>

\* setTimeout(() => { window.location.href = '/home' }, 500) fires
LoginRegisterPage_timeout ==
    /\ variant = "rsuite"
    /\ Alive
    /\ timers > 0
    /\ timers' = timers - 1
    /\ GoHome
    /\ UNCHANGED <<variant, activeTab, username, password, loading, error,
                   checkingAuth, toasts, probe, reqs, calls>>

\* the duration of a pushed message runs out and the toaster removes it
LoginRegisterPage_toast_expires(i) ==
    /\ variant = "rsuite"
    /\ Alive
    /\ i \in 1..Len(toasts)
    /\ toasts' = SubSeq(toasts, 1, i - 1) \o SubSeq(toasts, i + 1, Len(toasts))
    /\ UNCHANGED <<variant, activeTab, username, password, loading, error,
                   checkingAuth, probe, reqs, calls, timers, nav>>

\* a faulty LoginRegisterPage_Nav_onSelect: the switch empties the fields and
\* drops the submissions in flight
LoginRegisterPage_Nav_onSelect_Resets(t) ==
    /\ variant = "rsuite"
    /\ FormRendered
    /\ activeTab' = t
    /\ username' = ""
    /\ password' = ""
    /\ reqs' = {}
    /\ loading' = FALSE
    /\ UNCHANGED <<variant, error, checkingAuth, toasts, probe, calls, timers, nav>>

\* <Nav activeKey={activeTab} onSelect={setActiveTab}>
LoginRegisterPage_Nav_onSelect(t) ==
    /\ variant = "rsuite"
    /\ FormRendered
    /\ activeTab' = t
    /\ UNCHANGED <<variant, username, password, loading, error, checkingAuth,
                   toasts, probe, reqs, calls, timers, nav>>

\* <Input value={username} onChange={setUsername} disabled={loading}>
LoginRegisterPage_username_onChange(v) ==
    /\ variant = "rsuite"
    /\ FormRendered
    /\ ~loading
    /\ username' = v
    /\ UNCHANGED <<variant, activeTab, password, loading, error, checkingAuth,
                   toasts, probe, reqs, calls, timers, nav>>

\* <Input type="password" value={password} onChange={setPassword} disabled={loading}>
LoginRegisterPage_password_onChange(v) ==
    /\ variant = "rsuite"
    /\ FormRendered
    /\ ~loading
    /\ password' = v
    /\ UNCHANGED <<variant, activeTab, username, loading, error, checkingAuth,
                   toasts, probe, reqs, calls, timers, nav>>

----------------------------------------------------------------------------
(* The browser *)

\* the navigation that an assignment to window.location.href started commits:
\* the page, its state and its pending callbacks are gone
Unload ==
    /\ nav = "pending"
    /\ nav' = "unloaded"
    /\ UNCHANGED <<variant, activeTab, username, password, loading, error,
                   checkingAuth, toasts, probe, reqs, calls, timers>>

----------------------------------------------------------------------------
(* Specification *)

\* the steps of the checkAuth call
ProbeStep ==
    \/ \E resp \in WhoamiResponses : App_checkAuth_response(resp)
    \/ \E body \in WhoamiBodies : App_checkAuth_json(body)
    \/ \E resp \in WhoamiResponses : LoginRegisterPage_checkAuth_response(resp)
    \/ \E body \in WhoamiBodies : LoginRegisterPage_checkAuth_json(body)

\* the steps of the handleSubmit call that sent request number id
SubmitStep(id) ==
    \E r \in reqs :
        /\ r.id = id
        /\ \/ \E resp \in SubmitResponses : App_handleSubmit_response(r, resp)
           \/ \E body \in FailureBodies : App_handleSubmit_json(r, body)
           \/ \E resp \in SubmitResponses : LoginRegisterPage_handleSubmit_response(r, resp)
           \/ \E body \in FailureBodies : LoginRegisterPage_handleSubmit_json(r, body)

Next ==
    \/ \E resp \in WhoamiResponses : App_checkAuth_response(resp)
    \/ \E body \in WhoamiBodies : App_checkAuth_json(body)
    \/ \E resp \in WhoamiResponses : LoginRegisterPage_checkAuth_response(resp)
    \/ \E body \in WhoamiBodies : LoginRegisterPage_checkAuth_json(body)
    \/ App_button_onClick
    \/ App_input_onKeyDown
    \/ \E r \in reqs, resp \in SubmitResponses : App_handleSubmit_response(r, resp)
    \/ \E r \in reqs, body \in FailureBodies : App_handleSubmit_json(r, body)
    \/ \E t \in Tabs : App_tab_onClick(t)
    \/ \E v \in Usernames : App_username_onChange(v)
    \/ \E v \in Passwords : App_password_onChange(v)
    \/ LoginRegisterPage_Button_onClick
    \/ LoginRegisterPage_Input_onPressEnter
    \/ \E r \in reqs, resp \in SubmitResponses : LoginRegisterPage_handleSubmit_response(r, resp)
    \/ \E r \in reqs, body \in FailureBodies : LoginRegisterPage_handleSubmit_json(r, body)
    \/ LoginRegisterPage_timeout
    \/ \E i \in 1..MaxSubmits : LoginRegisterPage_toast_expires(i)
    \/ \E t \in Tabs : LoginRegisterPage_Nav_onSelect(t)
    \/ \E v \in Usernames : LoginRegisterPage_username_onChange(v)
    \/ \E v \in Passwords : LoginRegisterPage_password_onChange(v)
    \/ Unload

Spec == Init /\ [][Next]_vars

\* every pending fetch and body read settles, every timer fires and every
\* started navigation commits
FairSpec ==
    /\ Spec
    /\ WF_vars(ProbeStep)
    /\ \A id \in 1..MaxSubmits : WF_vars(SubmitStep(id))
    /\ WF_vars(LoginRegisterPage_timeout)
    /\ WF_vars(Unload)

----------------------------------------------------------------------------
(* Properties *)

\* the session probe has resolved, and with what
ProbeAuthenticated == probe.pc = "done" /\ probe.session
ProbeAnonymous == probe.pc = "done" /\ ~probe.session

\* the requests whose fetch has neither resolved nor thrown
Outstanding == {r \in reqs : r.pc = "fetching"}

\* the toasts on display that are errors
ErrorToasts == {i \in 1..Len(toasts) : toasts[i].type = "error"}

\* C1: once whoami has answered 2xx with a non-empty username, navigation to
\* /home has been triggered and the page never leaves the checking state
\* (checkingAuth stays true, so the form never renders).
C1_AuthenticatedNeverRendersForm ==
    ProbeAuthenticated => (nav # "none" /\ checkingAuth)

\* C2: a probe that ends in a non-2xx status, a thrown fetch, an unparseable
\* body or a 2xx body without a non-empty username leaves the checking state:
\* the step that ends it renders the form with no message displayed and no
\* navigation triggered, checkingAuth is false from then on, and the probe
\* does end.
C2_AnonymousProbeRendersForm ==
    /\ [](ProbeAnonymous => ~checkingAuth)
    /\ [][(\/ \E resp \in WhoamiResponses :
                  /\ resp.kind = "throw" \/ resp.status \notin 200..299
                  /\ CheckAuthResponse(resp)
            \/ \E body \in WhoamiBodies :
                  /\ body.kind # "object" \/ body.username \in {Undefined, ""}
                  /\ CheckAuthJson(body))
            => (/\ ProbeAnonymous'
                /\ FormRendered'
                /\ error' = ""
                /\ toasts' = << >>
                /\ nav' = "none")]_vars
    /\ <>(probe.pc = "done")

C2_Witness ==
    /\ ProbeAnonymous
    /\ FormRendered
    /\ calls = 0

\* C3: at most one submission request is outstanding at any time.
C3_AtMostOneOutstanding == Cardinality(Outstanding) <= 1

\* C4: the step that ends a handleSubmit call leaves loading false, whatever
\* the fetch settled with, and every call that sent a request ends (or the
\* page is gone).
C4_SubmissionLeavesInFlight ==
    /\ [][\A r \in reqs : (\A q \in reqs' : q.id # r.id) => ~loading']_vars
    /\ \A id \in 1..MaxSubmits :
          (\E r \in reqs : r.id = id) ~> ((\A r \in reqs : r.id # id) \/ ~Alive)

C4_Witness ==
    /\ calls = MaxSubmits
    /\ reqs = {}
    /\ ~loading
    /\ Alive
    /\ error = NetworkError

\* C5: a displayed failure message was produced by a submission issued under
\* the mode that is active now: 'Login failed' is displayed only in login
\* mode and 'Registration failed' only in register mode.
C5_NoStaleErrorAcrossModes ==
    /\ error = LoginFailed => activeTab = "login"
    /\ error = RegistrationFailed => activeTab = "register"
    /\ \A i \in ErrorToasts :
          /\ toasts[i].msg = LoginFailed => activeTab = "login"
          /\ toasts[i].msg = RegistrationFailed => activeTab = "register"

\* C6: right after a mode switch, in either component, no error message
\* remains displayed.
C6_SwitchClearsError ==
    [][(\E t \in Tabs : App_tab_onClick(t) \/ LoginRegisterPage_Nav_onSelect(t))
        => (error' = "" /\ \A i \in 1..Len(toasts') : toasts'[i].type # "error")]_vars

\* the responses whose status is in the 2xx range
SuccessResponses ==
    {resp \in SubmitResponses : resp.kind = "response" /\ resp.status \in 200..299}

\* C7: a submission answered with a 2xx status displays no error and starts
\* the redirect (App assigns location.href, LoginRegisterPage pushes the
\* success message and arms the timer); an armed timer leads to the
\* navigation being triggered, and a triggered navigation to the page leaving.
C7_SuccessRedirects ==
    /\ [][\A r \in reqs, resp \in SuccessResponses :
            /\ App_handleSubmit_response(r, resp)
                 => (error' = "" /\ nav' = "pending")
            /\ LoginRegisterPage_handleSubmit_response(r, resp)
                 => (/\ toasts' = Append(toasts, Toast("success", SuccessText(r.tab)))
                     /\ timers' = timers + 1)]_vars
    /\ (timers > 0) ~> (nav # "none")
    /\ (nav = "pending") ~> (nav = "unloaded")

C7_Witness ==
    /\ ProbeAnonymous
    /\ nav = "unloaded"
    /\ \E i \in 1..Len(toasts) : toasts[i] = Toast("success", RegistrationSuccessful)

\* the generic message for a request, by the endpoint it was sent to
GenericFailure(endpoint) ==
    IF endpoint = "/auth/login" THEN "Login failed" ELSE "Registration failed"

\* detail when non-empty, else message when non-empty, else the generic message
PreferredMessage(body, endpoint) ==
    IF body.detail \notin {Undefined, ""} THEN body.detail
    ELSE IF body.message \notin {Undefined, ""} THEN body.message
    ELSE GenericFailure(endpoint)

\* the message the step has just displayed is msg
Displays(msg) ==
    IF variant = "tailwind" THEN error' = msg
    ELSE toasts' = Append(toasts, Toast("error", msg))

\* C8: a rejected submission whose body is parseable JSON displays detail
\* when non-empty, else message when non-empty, else the generic message of
\* the endpoint the request was sent to.
C8_FailureMessagePrecedence ==
    [][\A r \in reqs, body \in FailureBodies :
          (/\ body.kind # "unparseable"
           /\ App_handleSubmit_json(r, body) \/ LoginRegisterPage_handleSubmit_json(r, body))
             => Displays(PreferredMessage(body, r.endpoint))]_vars

\* C9: a rejected submission whose body is no JSON displays the generic
\* message of the endpoint the request was sent to, not the network-error
\* message.
C9_UnparseableBodyFallback ==
    [][\A r \in reqs, body \in FailureBodies :
          (/\ body.kind = "unparseable"
           /\ App_handleSubmit_json(r, body) \/ LoginRegisterPage_handleSubmit_json(r, body))
             => (/\ Displays(GenericFailure(r.endpoint))
                 /\ ~Displays(NetworkError))]_vars

C9_Witness ==
    /\ variant = "tailwind"
    /\ activeTab = "register"
    /\ error = RegistrationFailed
    /\ ~loading
    /\ reqs = {}

\* C10: a submission whose fetch throws displays exactly 'Network error.
\* Please try again.', triggers no navigation and arms no timer, and leaves
\* loading false.
C10_TransportFailure ==
    [][\A r \in reqs :
          (App_handleSubmit_response(r, Thrown) \/ LoginRegisterPage_handleSubmit_response(r, Thrown))
             => (/\ Displays("Network error. Please try again.")
                 /\ nav' = nav
                 /\ timers' = timers
                 /\ ~loading')]_vars

C10_Witness ==
    /\ variant = "rsuite"
    /\ toasts = <<Toast("error", NetworkError)>>
    /\ nav = "none"
    /\ timers = 0
    /\ ~loading
    /\ reqs = {}

\* C11: in LoginRegisterPage a submit invoked with an empty username or an
\* empty password sends no request and pushes the validation warning; loading
\* is false before and after, and the fields and the mode are left as they were.
C11_GuardedValidation ==
    [][((username = "" \/ password = "")
          /\ (LoginRegisterPage_Button_onClick \/ LoginRegisterPage_Input_onPressEnter))
        => (/\ reqs' = reqs
            /\ toasts' = Append(toasts, Toast("warning", "Please fill in all fields"))
            /\ ~loading
            /\ ~loading'
            /\ username' = username
            /\ password' = password
            /\ activeTab' = activeTab)]_vars

C11_Witness ==
    /\ variant = "rsuite"
    /\ username = ""
    /\ password = "pw"
    /\ toasts = <<Toast("warning", FillAllFields)>>
    /\ reqs = {}
    /\ ~loading
    /\ calls = 1

\* C12: once a submission has succeeded (the redirect is scheduled or the
\* navigation is pending, the probe having found no session), no further
\* submission request is started before the page is gone.
C12_SuccessIsTerminal ==
    [][(ProbeAnonymous /\ (nav = "pending" \/ timers > 0)) => reqs' \subseteq reqs]_vars

\* C13: while the session probe has not resolved (checkingAuth is true) the
\* form is not rendered: no submission has been invoked or issued, the mode is
\* the initial one and the fields are untouched; any submission comes after
\* the whoami request has completed.
C13_ProbeGatesForm ==
    /\ checkingAuth => (/\ probe.pc # "done"
                        /\ reqs = {}
                        /\ calls = 0
                        /\ ~loading
                        /\ activeTab = "login"
                        /\ username = ""
                        /\ password = "")
    /\ (calls > 0 \/ reqs # {}) => (probe.pc = "done" /\ ~checkingAuth)

C13_Witness ==
    /\ checkingAuth
    /\ probe.pc = "parsing"
    /\ nav = "none"

\* C14: every request a step issues is a POST to /auth/login when the mode
\* is login at that moment and to /auth/register when it is register, and it
\* carries the username and password held at that moment; a request already
\* issued keeps its endpoint, method and body whatever happens afterwards
\* (a later mode switch included).
C14_EndpointSelection ==
    [][\A q \in reqs' :
          IF \E r \in reqs : r.id = q.id
          THEN \A r \in reqs :
                  r.id = q.id => (/\ q.endpoint = r.endpoint
                                  /\ q.method = r.method
                                  /\ q.username = r.username
                                  /\ q.password = r.password)
          ELSE /\ q.endpoint = (IF activeTab = "login" THEN "/auth/login"
                                ELSE "/auth/register")
               /\ activeTab \in {"login", "register"}
               /\ q.method = "POST"
               /\ q.username = username
               /\ q.password = password]_vars

C14_Witness ==
    \E r \in reqs :
        /\ r.endpoint = "/auth/register"
        /\ r.pc = "parsing"
        /\ activeTab = "login"
        /\ r.username = "alice"
        /\ r.password = "pw"

\* a step on which an attempt of LoginRegisterPage or App ends in failure:
\* the fetch throws, the handling of a non-2xx response completes, or the
\* validation of LoginRegisterPage refuses the attempt
AttemptFails ==
    \/ \E r \in reqs :
          \/ App_handleSubmit_response(r, Thrown)
          \/ LoginRegisterPage_handleSubmit_response(r, Thrown)
          \/ \E body \in FailureBodies :
                \/ App_handleSubmit_json(r, body)
                \/ LoginRegisterPage_handleSubmit_json(r, body)
    \/ /\ ~Truthy(username) \/ ~Truthy(password)
       /\ LoginRegisterPage_Button_onClick \/ LoginRegisterPage_Input_onPressEnter

\* C15: a failed attempt (rejection, transport failure, refused validation)
\* leaves username, password and the mode as they were and triggers no
\* navigation, and afterwards the form is rendered with loading false, so that
\* the submit control is active again.
C15_FailureIsRecoverable ==
    [][AttemptFails
        => (/\ username' = username
            /\ password' = password
            /\ activeTab' = activeTab
            /\ nav' = nav
            /\ timers' = timers
            /\ ~checkingAuth'
            /\ nav' # "unloaded"
            /\ ~loading')]_vars

\* a second attempt is in flight after the first one failed
C15_Witness ==
    /\ variant = "tailwind"
    /\ calls = 2
    /\ \E r \in reqs : r.id = 2 /\ r.pc = "fetching"
    /\ loading
    /\ nav = "none"
    /\ error = ""

\* C16: in App the submit control is active whenever the form is rendered and
\* loading is false, whatever the fields hold, and every submit issues exactly
\* one request carrying the fields as they are, empty ones included.
C16_UnguardedSubmit ==
    /\ [](\A u \in Usernames, p \in Passwords :
             (/\ variant = "tailwind"
              /\ ~checkingAuth
              /\ nav # "unloaded"
              /\ ~loading
              /\ calls < MaxSubmits
              /\ username = u
              /\ password = p)
                => (ENABLED App_button_onClick /\ ENABLED App_input_onKeyDown))
    /\ [][(App_button_onClick \/ App_input_onKeyDown)
            => (/\ reqs \subseteq reqs'
                /\ Cardinality(reqs') = Cardinality(reqs) + 1
                /\ \A q \in reqs' \ reqs :
                      /\ q.username = username
                      /\ q.password = password
                      /\ q.pc = "fetching")]_vars

C16_Witness ==
    /\ variant = "tailwind"
    /\ \E r \in reqs : r.username = "" /\ r.password = "" /\ r.pc = "fetching"
    /\ \A r \in reqs : r.endpoint = "/auth/register"

\* C17: the two components run the same control logic: with both fields
\* non-empty, a submit event on which LoginRegisterPage issues a request is an
\* event on which App, in the same state of mode, fields, flags and requests,
\* has its submit control active and issues the same request with the same
\* effect on the flags.
C17_VariantsAgreeOnSubmit ==
    [][(/\ Truthy(username)
        /\ Truthy(password)
        /\ (LoginRegisterPage_Button_onClick \/ LoginRegisterPage_Input_onPressEnter))
          => (/\ ~checkingAuth
              /\ ~loading
              /\ App_handleSubmit)]_vars

\* C18: a switch to mode t ends with t active and, in App, with no error on
\* display; a switch to t from such a state (t already active, as after a
\* first switch to t) changes nothing at all: mode, displayed error, fields
\* and loading are what they were.
C18_SwitchIdempotent ==
    [][\A t \in Tabs :
          (App_tab_onClick(t) \/ LoginRegisterPage_Nav_onSelect(t))
             => (/\ activeTab' = t
                 /\ variant = "tailwind" => error' = ""
                 /\ (activeTab = t /\ (variant = "tailwind" => error = ""))
                       => UNCHANGED vars)]_vars

\* a switch to register has been made while a submission is in flight
C18_Witness ==
    /\ variant = "tailwind"
    /\ activeTab = "register"
    /\ error = ""
    /\ loading
    /\ \E r \in reqs : r.endpoint = "/auth/login" /\ r.pc = "fetching"

\* C19: navigation to /home is triggered only by the reading of a whoami body
\* with a non-empty username (a body read only after whoami answered 2xx), by
\* a submission of App answered 2xx, or by the redirect timer of
\* LoginRegisterPage, and that timer is armed only by a submission answered
\* 2xx; no other step triggers a navigation or arms the timer.
C19_NoSpuriousRedirect ==
    [][/\ (nav = "none" /\ nav' # "none")
            => \/ \E body \in WhoamiBodies :
                     /\ body.kind = "object"
                     /\ body.username \notin {Undefined, ""}
                     /\ App_checkAuth_json(body) \/ LoginRegisterPage_checkAuth_json(body)
               \/ \E r \in reqs : \E resp \in SuccessResponses :
                     App_handleSubmit_response(r, resp)
               \/ LoginRegisterPage_timeout
       /\ (timers' > timers)
            => \E r \in reqs : \E resp \in SuccessResponses :
                  LoginRegisterPage_handleSubmit_response(r, resp)]_vars

\* the probe found no session, two attempts have ended and a navigation has
\* been triggered
C19_Witness ==
    /\ variant = "tailwind"
    /\ ProbeAnonymous
    /\ calls = 2
    /\ nav = "pending"
    /\ reqs = {}

\* C20: a mode switch changes the mode and, in App, the displayed error, and
\* nothing else: username, password, loading and checkingAuth are unchanged,
\* no request is issued, the requests in flight are left exactly as they
\* were, and no navigation or timer is touched; in LoginRegisterPage the
\* messages on display are unchanged too.
C20_SwitchFrame ==
    [][\A t \in Tabs :
          (App_tab_onClick(t) \/ LoginRegisterPage_Nav_onSelect(t))
             => (/\ username' = username
                 /\ password' = password
                 /\ loading' = loading
                 /\ checkingAuth' = checkingAuth
                 /\ reqs' = reqs
                 /\ calls' = calls
                 /\ timers' = timers
                 /\ nav' = nav
                 /\ probe' = probe
                 /\ toasts' = toasts
                 /\ variant = "rsuite" => error' = error)]_vars

\* the mode has been switched while a submission of LoginRegisterPage is in flight
C20_Witness ==
    /\ variant = "rsuite"
    /\ loading
    /\ \E r \in reqs : r.tab # activeTab /\ r.pc = "fetching" /\ r.username = "alice"
    /\ Cardinality(reqs) = 1

====
